---- MODULE Spec2Model ----
(***************************************************************************)
(* Model of package ring (src/ring.go): a concurrent bounded circular      *)
(* buffer that drops its oldest element when an Insert finds it full.      *)
(*                                                                         *)
(* The program state is the Ring struct (mutex, buf, len, head) and, for   *)
(* every calling goroutine, the position inside the method it is running.  *)
(* Each statement that runs under the mutex is one step, so the state      *)
(* inside Insert between the eviction and the write is a state of the      *)
(* model.  newArg, q, hist, pre and calls are history variables: they      *)
(* record what was called and what was returned and never influence the    *)
(* ring.                                                                   *)
(*                                                                         *)
(* Spec lets NThreads goroutines call the ring concurrently; SpecSeq has a *)
(* single caller and follows longer sequences of calls.                    *)
(***************************************************************************)
EXTENDS Integers, Sequences, FiniteSets

\* ------------------------------------------------------------------ bounds
NThreads == 2      \* goroutines calling the ring
MaxCap   == 2      \* largest capacity passed to New
NegCaps  == 1      \* New is also tried with 0 and with -1 .. -NegCaps
MaxVal   == 2      \* inserted values are 1..MaxVal
MaxOps   == 5      \* calls made by the single caller of SpecSeq
ConcOps  == 3      \* calls made by the concurrent callers of Spec

Threads == 1..NThreads
Values  == 1..MaxVal
CapArgs == (0 - NegCaps)..MaxCap

\* the nil interface{} value of an unused slot and of a not-found result
Nil == 0
\* the unlocked sync.Mutex
Free == 0

VARIABLES
    newArg, \* the capacity New was called with (0 before the call)
    ctor,   \* "pending" before New, then "ok" (ring, nil) or "failed" (nil, err)
    err,    \* the error returned by New: <<>> is nil, <<c>> reports capacity c
    mutex,  \* Free or the thread holding r.mutex
    buf,    \* r.buf: slots 0..cap-1
    len,    \* r.len
    head,   \* r.head
    pc,     \* per thread: position in the method it runs
    op,     \* per thread: the method it runs
    arg,    \* per thread: the argument of Insert
    ret,    \* per thread: the values the method is about to return
    pre,    \* ring fields at the moment the running method took the mutex
    q,      \* reference drop-oldest FIFO queue driven by the completed calls
    hist,   \* completed calls, in order of completion
    calls   \* number of calls made so far

vars == <<newArg, ctor, err, mutex, buf, len, head, pc, op, arg, ret, pre, q, hist, calls>>

\* ------------------------------------------------------- pure functions

\* cap(r.buf)
Cap(b) == Cardinality(DOMAIN b)

\* New with the capacity check off by one: capacity 0 is accepted
ValidCap_zero(c) == ~(c < 0)

\* the capacity check of New
ValidCap(c) == ~(c < 1)

\* make with one slot too many
MakeBuf_extra(c) == [i \in 0..c |-> Nil]

\* make([]interface{}, cap)
MakeBuf(c) == [i \in 0..(c - 1) |-> Nil]

\* tail one slot too far
tail_off(h, l, c) == (h + l + 1) % c

\* tail one slot before the first free one
tail_prev(h, l, c) == (h + l + c - 1) % c

\* tail computed from len alone
tail_len(h, l, c) == l % c

\* func (r *Ring) tail() int
tail(h, l, c) == (h + l) % c

\* a fullness test that never finds the ring full
IsFull_never(l, c) == l > c

\* the fullness test of Insert
IsFull(l, c) == l = c

\* extract that forgets to advance head
extract_stuck(b, l, h) ==
    IF l = 0
    THEN [val |-> Nil, found |-> FALSE, len |-> l, head |-> h]
    ELSE [val |-> b[h], found |-> TRUE, len |-> l - 1, head |-> h]

\* extract that advances head without wrapping
extract_nowrap(b, l, h) ==
    IF l = 0
    THEN [val |-> Nil, found |-> FALSE, len |-> l, head |-> h]
    ELSE [val |-> b[h], found |-> TRUE, len |-> l - 1, head |-> h + 1]

\* extract that reads the slot after advancing head
extract_after(b, l, h) ==
    IF l = 0
    THEN [val |-> Nil, found |-> FALSE, len |-> l, head |-> h]
    ELSE [val |-> b[(h + 1) % Cap(b)], found |-> TRUE, len |-> l - 1, head |-> (h + 1) % Cap(b)]

\* extract without the empty test
extract_noempty(b, l, h) ==
    [val |-> b[h], found |-> TRUE, len |-> l - 1, head |-> (h + 1) % Cap(b)]

\* func (r *Ring) extract(): the result and the fields it leaves behind
extract(b, l, h) ==
    IF l = 0
    THEN [val |-> Nil, found |-> FALSE, len |-> l, head |-> h]
    ELSE [val |-> b[h], found |-> TRUE, len |-> l - 1, head |-> (h + 1) % Cap(b)]

\* a Peek that does not test for the empty ring
peek_noempty(b, l, h) == <<b[h], TRUE>>

\* a Peek that reads the newest element
peek_last(b, l, h) ==
    IF l = 0 THEN <<Nil, FALSE>> ELSE <<b[(h + l - 1) % Cap(b)], TRUE>>

\* the body of Peek
peek(b, l, h) ==
    IF l = 0 THEN <<Nil, FALSE>> ELSE <<b[h], TRUE>>

\* the live window, oldest element first: len slots from head, wrapping
Window(b, l, h) == [i \in 1..l |-> b[(h + i - 1) % Cap(b)]]

\* a write that goes to the head slot
store_head(b, l, h, v) == [b EXCEPT ![h] = v]

\* the write of Insert: r.buf[r.tail()] = v
store(b, l, h, v) == [b EXCEPT ![tail(h, l, Cap(b))] = v]

\* ------------------------------------------------------------------ init

NoPre == [buf |-> <<>>, len |-> 0, head |-> 0]

Init ==
    /\ newArg = 0
    /\ ctor = "pending"
    /\ err = <<>>
    /\ mutex = Free
    /\ buf = <<>>
    /\ len = 0
    /\ head = 0
    /\ pc = [t \in Threads |-> "idle"]
    /\ op = [t \in Threads |-> "none"]
    /\ arg = [t \in Threads |-> Nil]
    /\ ret = [t \in Threads |-> <<>>]
    /\ pre = NoPre
    /\ q = <<>>
    /\ hist = <<>>
    /\ calls = 0

\* --------------------------------------------------------------- actions

\* New(cap)
New(c) ==
    /\ ctor = "pending"
    /\ newArg' = c
    /\ IF ValidCap(c)
       THEN /\ ctor' = "ok"
            /\ err' = <<>>
            /\ buf' = MakeBuf(c)
       ELSE /\ ctor' = "failed"
            /\ err' = <<c>>
            /\ buf' = buf
    /\ UNCHANGED <<mutex, len, head, pc, op, arg, ret, pre, q, hist, calls>>

\* a goroutine calls the method o of the ring; max bounds the calls made
Invoke(t, o, v, max) ==
    /\ ctor = "ok"
    /\ pc[t] = "idle"
    /\ calls < max
    /\ pc' = [pc EXCEPT ![t] = "lock"]
    /\ op' = [op EXCEPT ![t] = o]
    /\ arg' = [arg EXCEPT ![t] = v]
    /\ calls' = calls + 1
    /\ UNCHANGED <<newArg, ctor, err, mutex, buf, len, head, ret, pre, q, hist>>

InsertCall(t, v, max) == Invoke(t, "Insert", v, max)
ExtractCall(t, max) == Invoke(t, "Extract", Nil, max)
PeekCall(t, max) == Invoke(t, "Peek", Nil, max)
LenCall(t, max) == Invoke(t, "Len", Nil, max)

\* a Lock that does not wait for the mutex to be free
Lock_nowait(t) ==
    /\ pc[t] = "lock"
    /\ mutex' = t
    /\ pc' = [pc EXCEPT ![t] = op[t]]
    /\ pre' = [buf |-> buf, len |-> len, head |-> head]
    /\ UNCHANGED <<newArg, ctor, err, buf, len, head, op, arg, ret, q, hist, calls>>

\* a Len that reads r.len without taking the mutex
Lock_skipLen(t) ==
    /\ pc[t] = "lock"
    /\ IF op[t] = "Len"
       THEN UNCHANGED <<mutex, pre>>
       ELSE /\ mutex = Free
            /\ mutex' = t
            /\ pre' = [buf |-> buf, len |-> len, head |-> head]
    /\ pc' = [pc EXCEPT ![t] = op[t]]
    /\ UNCHANGED <<newArg, ctor, err, buf, len, head, op, arg, ret, q, hist, calls>>

\* r.mutex.Lock(), the first statement of every method
Lock(t) ==
    /\ pc[t] = "lock"
    /\ mutex = Free
    /\ mutex' = t
    /\ pc' = [pc EXCEPT ![t] = op[t]]
    /\ pre' = [buf |-> buf, len |-> len, head |-> head]
    /\ UNCHANGED <<newArg, ctor, err, buf, len, head, op, arg, ret, q, hist, calls>>

\* an eviction that lets go of the mutex before the write
InsertEvict_unlocked(t) ==
    /\ pc[t] = "Insert"
    /\ IF IsFull(len, Cap(buf))
       THEN /\ len' = extract(buf, len, head).len
            /\ head' = extract(buf, len, head).head
            /\ mutex' = Free
       ELSE UNCHANGED <<len, head, mutex>>
    /\ pc' = [pc EXCEPT ![t] = "InsertStore"]
    /\ UNCHANGED <<newArg, ctor, err, buf, op, arg, ret, pre, q, hist, calls>>

\* an eviction that takes the mutex again, as a call of Extract would
InsertEvict_relock(t) ==
    /\ pc[t] = "Insert"
    /\ IF IsFull(len, Cap(buf))
       THEN /\ mutex = Free
            /\ len' = extract(buf, len, head).len
            /\ head' = extract(buf, len, head).head
       ELSE UNCHANGED <<len, head>>
    /\ pc' = [pc EXCEPT ![t] = "InsertStore"]
    /\ UNCHANGED <<newArg, ctor, err, mutex, buf, op, arg, ret, pre, q, hist, calls>>

\* Insert: if r.len == cap(r.buf) { _, _ = r.extract() }
InsertEvict(t) ==
    /\ pc[t] = "Insert"
    /\ IF IsFull(len, Cap(buf))
       THEN /\ len' = extract(buf, len, head).len
            /\ head' = extract(buf, len, head).head
       ELSE UNCHANGED <<len, head>>
    /\ pc' = [pc EXCEPT ![t] = "InsertStore"]
    /\ UNCHANGED <<newArg, ctor, err, mutex, buf, op, arg, ret, pre, q, hist, calls>>

\* Insert: r.buf[r.tail()] = v; r.len++
InsertStore(t) ==
    /\ pc[t] = "InsertStore"
    /\ buf' = store(buf, len, head, arg[t])
    /\ len' = len + 1
    /\ pc' = [pc EXCEPT ![t] = "unlock"]
    /\ UNCHANGED <<newArg, ctor, err, mutex, head, op, arg, ret, pre, q, hist, calls>>

\* an Extract that clears the slot it reads
ExtractBody_clear(t) ==
    /\ pc[t] = "Extract"
    /\ ret' = [ret EXCEPT ![t] = <<extract(buf, len, head).val, extract(buf, len, head).found>>]
    /\ buf' = IF len = 0 THEN buf ELSE [buf EXCEPT ![head] = Nil]
    /\ len' = extract(buf, len, head).len
    /\ head' = extract(buf, len, head).head
    /\ pc' = [pc EXCEPT ![t] = "unlock"]
    /\ UNCHANGED <<newArg, ctor, err, mutex, op, arg, pre, q, hist, calls>>

\* an Extract whose not-found return skips the Unlock
ExtractBody_leak(t) ==
    /\ pc[t] = "Extract"
    /\ ret' = [ret EXCEPT ![t] = <<extract(buf, len, head).val, extract(buf, len, head).found>>]
    /\ len' = extract(buf, len, head).len
    /\ head' = extract(buf, len, head).head
    /\ pc' = [pc EXCEPT ![t] = IF len = 0 THEN "idle" ELSE "unlock"]
    /\ UNCHANGED <<newArg, ctor, err, mutex, buf, op, arg, pre, q, hist, calls>>

\* Extract: return r.extract()
ExtractBody(t) ==
    /\ pc[t] = "Extract"
    /\ ret' = [ret EXCEPT ![t] = <<extract(buf, len, head).val, extract(buf, len, head).found>>]
    /\ len' = extract(buf, len, head).len
    /\ head' = extract(buf, len, head).head
    /\ pc' = [pc EXCEPT ![t] = "unlock"]
    /\ UNCHANGED <<newArg, ctor, err, mutex, buf, op, arg, pre, q, hist, calls>>

\* a Peek that removes the element it returns
PeekBody_pop(t) ==
    /\ pc[t] = "Peek"
    /\ ret' = [ret EXCEPT ![t] = peek(buf, len, head)]
    /\ len' = extract(buf, len, head).len
    /\ head' = extract(buf, len, head).head
    /\ pc' = [pc EXCEPT ![t] = "unlock"]
    /\ UNCHANGED <<newArg, ctor, err, mutex, buf, op, arg, pre, q, hist, calls>>

\* Peek: the empty test and return r.buf[r.head], true
PeekBody(t) ==
    /\ pc[t] = "Peek"
    /\ ret' = [ret EXCEPT ![t] = peek(buf, len, head)]
    /\ pc' = [pc EXCEPT ![t] = "unlock"]
    /\ UNCHANGED <<newArg, ctor, err, mutex, buf, len, head, op, arg, pre, q, hist, calls>>

\* Len: return r.len
LenBody(t) ==
    /\ pc[t] = "Len"
    /\ ret' = [ret EXCEPT ![t] = <<len>>]
    /\ pc' = [pc EXCEPT ![t] = "unlock"]
    /\ UNCHANGED <<newArg, ctor, err, mutex, buf, len, head, op, arg, pre, q, hist, calls>>

\* ------------------------------------------------- the reference queue
\* The queue the ring is compared with: a plain sequence, oldest first.

\* drop-oldest FIFO queue of bound c: Insert
RefInsert(s, v, c) == IF Len(s) = c THEN Append(Tail(s), v) ELSE Append(s, v)

\* drop-oldest FIFO queue: what Extract and Peek return
RefFront(s) == IF s = <<>> THEN <<Nil, FALSE>> ELSE <<Head(s), TRUE>>

\* drop-oldest FIFO queue: Extract
RefExtract(s) == IF s = <<>> THEN s ELSE Tail(s)

\* the reference queue after the call o(v)
RefStep(s, o, v, c) ==
    IF o = "Insert" THEN RefInsert(s, v, c)
    ELSE IF o = "Extract" THEN RefExtract(s)
    ELSE s

\* what the reference queue returns to the call o
RefRet(s, o) ==
    IF o = "Insert" THEN <<>>
    ELSE IF o = "Len" THEN <<Len(s)>>
    ELSE RefFront(s)

\* the reference queue of bound c after the first n calls of h, run one at
\* a time from the empty queue
RECURSIVE RefAfter(_, _, _)
RefAfter(h, n, c) ==
    IF n = 0 THEN <<>>
    ELSE RefStep(RefAfter(h, n - 1, c), h[n].op, h[n].arg, c)

\* defer r.mutex.Unlock(), and the return to the caller
Unlock(t) ==
    /\ pc[t] = "unlock"
    /\ mutex = t
    /\ mutex' = Free
    /\ pc' = [pc EXCEPT ![t] = "idle"]
    /\ hist' = Append(hist, [op |-> op[t], arg |-> arg[t], ret |-> ret[t],
                             by |-> t, n |-> len, win |-> Window(buf, len, head)])
    /\ q' = RefStep(q, op[t], arg[t], Cap(buf))
    /\ op' = [op EXCEPT ![t] = "none"]
    /\ arg' = [arg EXCEPT ![t] = Nil]
    /\ ret' = [ret EXCEPT ![t] = <<>>]
    /\ pre' = NoPre
    /\ UNCHANGED <<newArg, ctor, err, buf, len, head, calls>>

Next ==
    \/ \E c \in CapArgs : New(c)
    \/ \E t \in Threads, v \in Values : InsertCall(t, v, ConcOps)
    \/ \E t \in Threads : ExtractCall(t, ConcOps)
    \/ \E t \in Threads : PeekCall(t, ConcOps)
    \/ \E t \in Threads : LenCall(t, ConcOps)
    \/ \E t \in Threads : Lock(t)
    \/ \E t \in Threads : InsertEvict(t)
    \/ \E t \in Threads : InsertStore(t)
    \/ \E t \in Threads : ExtractBody(t)
    \/ \E t \in Threads : PeekBody(t)
    \/ \E t \in Threads : LenBody(t)
    \/ \E t \in Threads : Unlock(t)

Spec == Init /\ [][Next]_vars

\* one caller: every call returns before the next one starts
NextSeq ==
    \/ \E c \in CapArgs : New(c)
    \/ \E v \in Values : InsertCall(1, v, MaxOps)
    \/ ExtractCall(1, MaxOps)
    \/ PeekCall(1, MaxOps)
    \/ LenCall(1, MaxOps)
    \/ Lock(1)
    \/ InsertEvict(1)
    \/ InsertStore(1)
    \/ ExtractBody(1)
    \/ PeekBody(1)
    \/ LenBody(1)
    \/ Unlock(1)

SpecSeq == Init /\ [][NextSeq]_vars

\* the statements thread t runs while it holds the mutex
Run(t) ==
    \/ InsertEvict(t)
    \/ InsertStore(t)
    \/ ExtractBody(t)
    \/ PeekBody(t)
    \/ LenBody(t)
    \/ Unlock(t)

\* Spec under fair scheduling: a goroutine that can run its next statement
\* eventually runs it, and a goroutine waiting in Lock eventually gets the
\* mutex if it keeps being released
SpecFair ==
    /\ Spec
    /\ \A t \in Threads : WF_vars(Run(t))
    /\ \A t \in Threads : SF_vars(Lock(t))

\* ------------------------------------------------------------- properties

\* thread t has run the body of method o and is about to unlock and return
Returning(t, o) == pc[t] = "unlock" /\ op[t] = o

\* the live window now, and when the running method took the mutex
Live == Window(buf, len, head)
PreLive == Window(pre.buf, pre.len, pre.head)

\* the values inserted by the calls of h, in order
Inserted(h) ==
    LET ins == SelectSeq(h, LAMBDA e : e.op = "Insert")
    IN [j \in 1..Len(ins) |-> ins[j].arg]

\* the last n elements of s (all of s when it is shorter)
LastN(s, n) == IF Len(s) <= n THEN s ELSE SubSeq(s, Len(s) - n + 1, Len(s))

\* no call is running and the caller of the last completed call has not
\* called again.  Every value hist takes occurs in such a state (the state
\* its last call returned to), so a property of hist alone is checked there.
AtReturn ==
    /\ mutex = Free
    /\ hist = <<>> \/ pc[hist[Len(hist)].by] = "idle"

\* the ring was full when call i of hist began
FullBefore(i) == i > 1 /\ hist[i - 1].n = Cap(buf)

\* C1: refinement of the drop-oldest FIFO queue.  Between calls the live
\* window buf[head], buf[(head+1) mod C], ... (len slots) equals the
\* reference queue q driven by the same calls; when a call has run its body
\* the window equals the reference queue after that call, and an Extract is
\* about to return the (value, found) pair the reference queue returns.
C1_Refinement ==
    /\ mutex = Free => Live = q
    /\ \A t \in Threads : pc[t] = "unlock" =>
          /\ Live = RefStep(q, op[t], arg[t], Cap(buf))
          /\ op[t] = "Extract" => ret[t] = RefFront(q)

\* C1 witness: a non-empty ring whose head has wrapped around buf and moved
\* on, after an Insert that evicted and an Extract that returned an element
C1_Witness ==
    /\ mutex = Free
    /\ Cap(buf) >= 2
    /\ len > 0
    /\ head > 0
    /\ Len(Inserted(hist)) > Cap(buf) + 1
    /\ \E i \in 1..Len(hist) : hist[i].op = "Extract" /\ hist[i].ret[2]
    /\ \E i \in 1..Len(hist) : hist[i].op = "Insert" /\ FullBefore(i)

\* the calls of hist after call i, and the values they inserted
After(i) == SubSeq(hist, i + 1, Len(hist))
Added(i) == Inserted(After(i))

\* the ring was full after call i and no Extract was called since
FullRun(i) ==
    /\ hist[i].n = Cap(buf)
    /\ \A j \in (i + 1)..Len(hist) : hist[j].op # "Extract"

\* C2: eviction.  An Insert that finds the ring full (any capacity, 1
\* included) discards exactly the oldest element and leaves len = C.  After
\* k >= 1 further Inserts into a full ring with no Extract in between, the
\* live elements are the last C inserted values, oldest first, and Peek
\* returns the (k+1)-th oldest of the values that were live or inserted.
C2_Eviction ==
    /\ \A t \in Threads : (Returning(t, "Insert") /\ pre.len = Cap(pre.buf)) =>
          /\ len = Cap(buf)
          /\ Live = Append(Tail(PreLive), arg[t])
    /\ AtReturn =>
          \A i \in 1..Len(hist) : (FullRun(i) /\ Len(Added(i)) >= 1) =>
              /\ len = Cap(buf)
              /\ Live = LastN(Inserted(hist), Cap(buf))
              /\ Live = LastN(hist[i].win \o Added(i), Cap(buf))
    /\ \A t \in Threads : Returning(t, "Peek") =>
          \A i \in 1..Len(hist) : (FullRun(i) /\ Len(Added(i)) >= 1) =>
              ret[t] = <<(hist[i].win \o Added(i))[Len(Added(i)) + 1], TRUE>>

\* C2 witness: a Peek returns after two Inserts into a full ring of the
\* largest capacity, the ring holding two different values
C2_Witness ==
    \E t \in Threads, i \in 1..Len(hist) :
        /\ Returning(t, "Peek")
        /\ FullRun(i)
        /\ Len(Added(i)) >= 2
        /\ Cap(buf) = MaxCap
        /\ Live[1] # Live[len]

\* calls i .. i+n-1 of hist are Inserts into a ring that was empty before
\* call i, and calls i+n .. i+n+m-1 are Extracts
FifoRound(i, n, m) ==
    /\ i + n + m - 1 <= Len(hist)
    /\ i = 1 \/ hist[i - 1].n = 0
    /\ \A j \in i..(i + n - 1) : hist[j].op = "Insert"
    /\ \A j \in (i + n)..(i + n + m - 1) : hist[j].op = "Extract"

\* C3: FIFO without eviction.  From an empty ring, whatever its head index,
\* n <= C Inserts followed by Extracts: the m-th Extract (m <= n) returns
\* the m-th inserted value with found = TRUE and leaves len = n - m, so the
\* ring is empty after the n-th.
C3_Fifo ==
    AtReturn =>
        \A i \in 1..Len(hist), n \in 1..Cap(buf), m \in 1..Cap(buf) :
            (m <= n /\ FifoRound(i, n, m)) =>
                /\ hist[i + n + m - 1].ret = <<hist[i + m - 1].arg, TRUE>>
                /\ hist[i + n + m - 1].n = n - m

\* C3 witness: a ring emptied by an earlier Extract, its head not at slot
\* 0, then given two different values, of which Extract returns the first
C3_Witness ==
    \E i \in 2..Len(hist) :
        /\ mutex = Free
        /\ Cap(buf) >= 2
        /\ hist[i - 1].op = "Extract"
        /\ hist[i - 1].ret[2]
        /\ FifoRound(i, 2, 1)
        /\ i + 2 = Len(hist)
        /\ hist[i].arg # hist[i + 1].arg
        /\ (head + Cap(buf) - 1) % Cap(buf) # 0

\* C4: in every reachable state of a constructed ring, under any
\* interleaving of the calls of all threads and also inside Insert between
\* the eviction and the write, 0 <= len <= C and 0 <= head < C, and every
\* value Len() returns lies in 0..C.
C4_Bounds ==
    ctor = "ok" =>
        /\ 0 <= len /\ len <= Cap(buf)
        /\ 0 <= head /\ head < Cap(buf)
        /\ \A t \in Threads : Returning(t, "Len") => ret[t][1] \in 0..Cap(buf)

\* C4 witness: a thread is inside Insert on a full ring, after the eviction
\* and before the write, while another thread waits for the mutex in Len
C4_Witness ==
    \E t \in Threads, u \in Threads :
        /\ t # u
        /\ pc[t] = "InsertStore"
        /\ pre.len = Cap(buf)
        /\ len = Cap(buf) - 1
        /\ pc[u] = "lock"
        /\ op[u] = "Len"

\* C5: New(cap) fails exactly when cap < 1: it returns a non-nil error, that
\* reports the rejected capacity, and no ring.  No other error exists: a
\* successful New returns a nil error, and no statement of Insert, Extract,
\* Peek or Len can fault (every slot index it uses is inside buf and the
\* modulus cap(buf) is not zero).
C5_OnlyError ==
    /\ ctor # "pending" => (ctor = "failed" <=> newArg < 1)
    /\ ctor = "failed" => err = <<newArg>> /\ buf = <<>> /\ calls = 0
    /\ ctor # "failed" => err = <<>>
    /\ \A t \in Threads :
          /\ pc[t] \in {"Insert", "InsertStore", "Extract", "Peek"} => Cap(buf) > 0
          /\ pc[t] = "InsertStore" => tail(head, len, Cap(buf)) \in DOMAIN buf
          /\ (pc[t] \in {"Extract", "Peek"} /\ len # 0) => head \in DOMAIN buf
          /\ (pc[t] = "Insert" /\ IsFull(len, Cap(buf)) /\ len # 0) => head \in DOMAIN buf

\* C5 witness: New(0) has failed with an error and no ring
C5_Witness == ctor = "failed" /\ newArg = 0 /\ err = <<0>>

\* no call of hist before call i was an Insert
NoInsertBefore(i) == \A j \in 1..(i - 1) : hist[j].op # "Insert"

\* C6: New(cap) succeeds for every cap >= 1 and returns a ring with len = 0,
\* head = 0, exactly cap slots, all nil, and the mutex free; on that ring
\* Len() returns 0 and Peek() and Extract() return (nil, false).
C6_NewRing ==
    /\ (ctor # "pending" /\ newArg >= 1) => ctor = "ok" /\ err = <<>>
    /\ (ctor = "ok" /\ calls = 0) =>
          /\ len = 0
          /\ head = 0
          /\ mutex = Free
          /\ DOMAIN buf = 0..(newArg - 1)
          /\ \A i \in DOMAIN buf : buf[i] = Nil
    /\ AtReturn =>
          \A i \in 1..Len(hist) : NoInsertBefore(i) =>
              /\ hist[i].op = "Len" => hist[i].ret = <<0>>
              /\ hist[i].op \in {"Peek", "Extract"} => hist[i].ret = <<Nil, FALSE>>

\* C6 witness: Len, Peek and Extract have all returned on a new ring of
\* the largest capacity, before any Insert
C6_Witness ==
    /\ ctor = "ok"
    /\ newArg = MaxCap
    /\ NoInsertBefore(Len(hist) + 1)
    /\ \A o \in {"Len", "Peek", "Extract"} : \E i \in 1..Len(hist) : hist[i].op = o

\* C7: Extract and Peek return found = TRUE exactly when len > 0 at the
\* moment they hold the mutex; when len = 0 they return (nil, false) and
\* leave head, len and every slot of buf unchanged.
C7_Empty ==
    \A t \in Threads : (Returning(t, "Extract") \/ Returning(t, "Peek")) =>
        /\ ret[t][2] = (pre.len > 0)
        /\ pre.len = 0 =>
              /\ ret[t] = <<Nil, FALSE>>
              /\ buf = pre.buf
              /\ len = pre.len
              /\ head = pre.head

\* C7 witness: Extract returns not-found on a drained ring whose head slot
\* still holds the value extracted before
C7_Witness ==
    \E t \in Threads :
        /\ Returning(t, "Extract")
        /\ pre.len = 0
        /\ pre.buf[pre.head] # Nil
        /\ ret[t] = <<Nil, FALSE>>

\* calls i and j of hist are both method o, with only Peek and Len between
SameView(i, j, o) ==
    /\ i < j
    /\ hist[i].op = o
    /\ hist[j].op = o
    /\ \A k \in (i + 1)..(j - 1) : hist[k].op \in {"Peek", "Len"}

\* C8: Peek and Len are read-only: they leave head, len and every slot of
\* buf as they found them, so two Peeks with no Insert or Extract between
\* them return the same (value, found) pair, and Len returns the same
\* number before and after.
C8_ReadOnly ==
    /\ \A t \in Threads : (Returning(t, "Peek") \/ Returning(t, "Len")) =>
          /\ buf = pre.buf
          /\ len = pre.len
          /\ head = pre.head
    /\ AtReturn =>
          \A i \in 1..Len(hist), j \in 1..Len(hist) :
              /\ SameView(i, j, "Peek") => hist[i].ret = hist[j].ret
              /\ SameView(i, j, "Len") => hist[i].ret = hist[j].ret

\* C8 witness: Len, Peek, Peek, Len called in a row on a non-empty ring
C8_Witness ==
    \E i \in 1..Len(hist) :
        /\ i + 3 <= Len(hist)
        /\ hist[i].op = "Len"
        /\ hist[i + 1].op = "Peek"
        /\ hist[i + 1].ret[2]
        /\ hist[i + 2].op = "Peek"
        /\ hist[i + 3].op = "Len"

\* C9: Extract on a ring with len > 0 returns (buf[head], true) for the
\* head it found, sets head to (head + 1) mod capacity, decrements len by
\* one, and leaves every slot of buf as it was.
C9_Extract ==
    \A t \in Threads : (Returning(t, "Extract") /\ pre.len > 0) =>
        /\ ret[t] = <<pre.buf[pre.head], TRUE>>
        /\ head = (pre.head + 1) % Cap(pre.buf)
        /\ len = pre.len - 1
        /\ buf = pre.buf
        /\ mutex = t

\* C9 witness: Extract takes the element of the last slot of buf, so head
\* wraps to slot 0, and another element stays in the ring
C9_Witness ==
    \E t \in Threads :
        /\ Returning(t, "Extract")
        /\ Cap(buf) >= 2
        /\ pre.head = Cap(buf) - 1
        /\ pre.len >= 2
        /\ head = 0
        /\ ret[t][1] # buf[head]

\* C10: Insert(v) always completes.  When len < capacity it adds one to len
\* and leaves head; when len = capacity it leaves len at capacity and
\* advances head by one modulo capacity.  In both cases the only slot it
\* writes is (head + len) mod capacity, computed after the eviction, which
\* receives v, and v is the newest live element.
C10_Insert ==
    /\ \A t \in Threads : pc[t] = "InsertStore" =>
          /\ len < Cap(buf)
          /\ tail(head, len, Cap(buf)) \in DOMAIN buf
    /\ \A t \in Threads : Returning(t, "Insert") =>
          /\ pre.len < Cap(buf) => len = pre.len + 1 /\ head = pre.head
          /\ pre.len = Cap(buf) => len = Cap(buf) /\ head = (pre.head + 1) % Cap(buf)
          /\ buf = [pre.buf EXCEPT ![(head + (len - 1)) % Cap(buf)] = arg[t]]
          /\ Live[len] = arg[t]

\* C10 witness: Insert into a full ring whose head is the last slot of buf:
\* head wraps to slot 0 and the new value replaces a different one
C10_Witness ==
    \E t \in Threads :
        /\ Returning(t, "Insert")
        /\ Cap(buf) >= 2
        /\ pre.len = Cap(buf)
        /\ pre.head = Cap(buf) - 1
        /\ head = 0
        /\ pre.buf[pre.head] # arg[t]

\* thread t is between r.mutex.Lock() and the deferred r.mutex.Unlock():
\* at one of the statements that read or write buf, len or head, or at the
\* return
InCS(t) == pc[t] \in {"Insert", "InsertStore", "Extract", "Peek", "Len", "unlock"}

\* C11: mutual exclusion.  At most one thread is between acquiring and
\* releasing the mutex, and a thread is at a statement that reads or writes
\* buf, len or head only while it holds the mutex.
C11_Mutex ==
    /\ \A t \in Threads, u \in Threads : (InCS(t) /\ InCS(u)) => t = u
    /\ \A t \in Threads : InCS(t) => mutex = t

\* C11 witness: one thread is inside Extract on a non-empty ring while
\* another has called Insert and waits for the mutex
C11_Witness ==
    \E t \in Threads, u \in Threads :
        /\ t # u
        /\ pc[t] = "Extract"
        /\ len > 0
        /\ pc[u] = "lock"
        /\ op[u] = "Insert"

\* every completed call returned what the sequential drop-oldest queue
\* returns when the calls run one at a time in the order of hist
SequentialInOrder ==
    \A i \in 1..Len(hist) :
        hist[i].ret = RefRet(RefAfter(hist, i - 1, Cap(buf)), hist[i].op)

\* a call takes its place in hist at the step it returns, behind every call
\* that has returned, and a call being made leaves hist alone: so a call
\* made after another has returned comes after it in hist
ReturnOrder ==
    /\ hist' # hist =>
          \E t \in Threads :
              /\ pc[t] = "unlock"
              /\ pc'[t] = "idle"
              /\ hist' = Append(hist, hist'[Len(hist')])
              /\ hist'[Len(hist')].by = t
              /\ hist'[Len(hist')].op = op[t]
              /\ hist'[Len(hist')].arg = arg[t]
              /\ hist'[Len(hist')].ret = ret[t]
    /\ \A t \in Threads : (pc[t] = "idle" /\ pc'[t] # "idle") => hist' = hist

\* C12: linearizability.  The order in which the calls return is a total
\* order of the calls that respects real time (a call that returned before
\* another was made precedes it), and in that order every returned value
\* -- the (value, found) pairs of Extract and Peek, the numbers of Len --
\* is the one the sequential drop-oldest FIFO queue of the same capacity
\* returns, for the completed calls and for the call about to return.
C12_Linearizable ==
    /\ [](AtReturn => SequentialInOrder)
    /\ [](\A t \in Threads : pc[t] = "unlock" => ret[t] = RefRet(q, op[t]))
    /\ [][ReturnOrder]_vars

\* C12 witness: Extract is about to return the value another thread
\* inserted, while that thread has made its next call and waits
C12_Witness ==
    \E t \in Threads, u \in Threads :
        /\ t # u
        /\ Returning(t, "Extract")
        /\ hist # <<>>
        /\ hist[Len(hist)].by = u
        /\ hist[Len(hist)].op = "Insert"
        /\ ret[t] = <<hist[Len(hist)].arg, TRUE>>
        /\ pc[u] = "lock"

\* C13: Insert on a full ring is atomic for the other threads.  While a
\* thread is past the eviction and before the write no other thread is at a
\* statement of a method; the ring a method finds when it gets the mutex is
\* the one the completed calls left, never the state after an eviction; and
\* once the ring is full, as long as no Extract has returned, every Len
\* returns the capacity and every Peek and Extract finds an element.
C13_AtomicInsert ==
    /\ \A t \in Threads : pc[t] = "InsertStore" =>
          /\ mutex = t
          /\ \A u \in Threads : InCS(u) => u = t
    /\ \A u \in Threads : InCS(u) =>
          /\ PreLive = q
          /\ Returning(u, "Len") => ret[u] = <<pre.len>>
          /\ Returning(u, "Peek") => ret[u] = peek(pre.buf, pre.len, pre.head)
    /\ \A u \in Threads : pc[u] = "unlock" =>
          \A i \in 1..Len(hist) : FullRun(i) =>
              /\ op[u] = "Len" => ret[u] = <<Cap(buf)>>
              /\ op[u] \in {"Peek", "Extract"} => ret[u][2]

\* C13 witness: on a full ring Len is about to return the capacity while
\* another thread has called Insert, which will evict, and waits
C13_Witness ==
    \E t \in Threads, u \in Threads :
        /\ t # u
        /\ Returning(u, "Len")
        /\ ret[u] = <<Cap(buf)>>
        /\ len = Cap(buf)
        /\ pc[t] = "lock"
        /\ op[t] = "Insert"

\* the threads that have made a call that has not returned yet
InFlight == {t \in Threads : pc[t] # "idle"}

\* C14: the mutex is released on every exit path.  A thread holds the mutex
\* exactly while it is between Lock and the deferred Unlock, so the mutex is
\* free whenever no thread is inside a method; and every call made has
\* either returned through its one Unlock or is still in flight.
C14_Released ==
    /\ \A t \in Threads : (mutex = t) <=> InCS(t)
    /\ (\A t \in Threads : ~InCS(t)) => mutex = Free
    /\ calls = Len(hist) + Cardinality(InFlight)

\* C14 witness: no call is in flight and the mutex is free after an Insert,
\* an Extract that returned not-found and a Peek that returned not-found
C14_Witness ==
    /\ InFlight = {}
    /\ mutex = Free
    /\ \E i \in 1..Len(hist) : hist[i].op = "Insert"
    /\ \E i \in 1..Len(hist) : hist[i].op = "Extract" /\ ~hist[i].ret[2]
    /\ \E i \in 1..Len(hist) : hist[i].op = "Peek" /\ ~hist[i].ret[2]

\* C15: no call blocks.  Under fair scheduling of the threads and of the
\* mutex every call that was made returns, whatever the ring holds and
\* whatever other calls are in flight; a thread that holds the mutex can
\* always run its next statement, in particular the eviction of Insert on a
\* full ring, which does not wait for the mutex its thread holds.
C15_Returns ==
    /\ \A t \in Threads : (pc[t] # "idle") ~> (pc[t] = "idle")
    /\ [](\A t \in Threads : InCS(t) => ENABLED Run(t))

\* C15 witness: Insert on a full ring is about to return while another
\* thread waits for the mutex
C15_Witness ==
    \E t \in Threads, u \in Threads :
        /\ t # u
        /\ Returning(t, "Insert")
        /\ pre.len = Cap(buf)
        /\ len = Cap(buf)
        /\ pc[u] = "lock"

\* call i of hist is an Extract that returned an element
Took(i) == hist[i].op = "Extract" /\ hist[i].ret[2]

\* call i of hist is an Insert that found the ring full and evicted
Evicted(i) == hist[i].op = "Insert" /\ FullBefore(i)

\* among the first n calls of hist: the Extracts that returned an element,
\* the Inserts that evicted, and the Inserts
Takes(n) == Cardinality({i \in 1..n : Took(i)})
Evictions(n) == Cardinality({i \in 1..n : Evicted(i)})
Inserts(n) == Cardinality({i \in 1..n : hist[i].op = "Insert"})

\* C16: the values the successful Extracts return, in call order, are a
\* subsequence of the inserted values in insertion order.  The Extract that
\* is call e returns the inserted value number Takes + Evictions + 1 (both
\* counted over the calls before e), which was inserted before e; that
\* number grows from one successful Extract to the next, so no element is
\* returned twice or out of order, and the numbers passed over by an
\* eviction are never returned.
C16_Subsequence ==
    AtReturn =>
        \A e \in 1..Len(hist) : Took(e) =>
            LET k == Takes(e - 1) + Evictions(e - 1) + 1
            IN /\ k <= Inserts(e - 1)
               /\ hist[e].ret[1] = Inserted(hist)[k]

\* C16 witness: after an eviction on a ring of capacity 2 or more, two
\* Extracts in a row have returned different values
C16_Witness ==
    /\ AtReturn
    /\ Cap(buf) >= 2
    /\ Len(hist) >= 2
    /\ Took(Len(hist))
    /\ Took(Len(hist) - 1)
    /\ Evictions(Len(hist)) >= 1
    /\ hist[Len(hist)].ret # hist[Len(hist) - 1].ret
    /\ hist[Len(hist)].n = 0

\* the number of elements before call i of hist
LenBefore(i) == IF i = 1 THEN 0 ELSE hist[i - 1].n

\* calls i+1 .. j-1 of hist are all Len calls
OnlyLenBetween(i, j) == \A k \in (i + 1)..(j - 1) : hist[k].op = "Len"

\* C17: a Peek on a ring that holds an element and the Extract that follows
\* it with nothing but Len calls in between return the same value; a Len
\* before the Peek and every Len between the two return the same count,
\* and a Len after the Extract returns one less.
C17_PeekThenExtract ==
    AtReturn =>
        /\ \A k \in 1..Len(hist) : hist[k].op = "Len" =>
               /\ hist[k].ret = <<LenBefore(k)>>
               /\ hist[k].n = LenBefore(k)
        /\ \A i \in 1..Len(hist), j \in 1..Len(hist) :
               ( /\ i < j
                 /\ hist[i].op = "Peek"
                 /\ LenBefore(i) > 0
                 /\ hist[j].op = "Extract"
                 /\ OnlyLenBetween(i, j) ) =>
                   /\ hist[j].ret = hist[i].ret
                   /\ hist[i].ret[2]
                   /\ hist[i].n = LenBefore(i)
                   /\ LenBefore(j) = LenBefore(i)
                   /\ hist[j].n + 1 = LenBefore(i)

\* C17 witness: Len, Peek, Len, Extract, Len in a row on a ring that holds
\* an element
C17_Witness ==
    /\ AtReturn
    /\ Len(hist) >= 5
    /\ LET n == Len(hist)
       IN /\ hist[n].op = "Len"
          /\ hist[n - 1].op = "Extract"
          /\ hist[n - 2].op = "Len"
          /\ hist[n - 3].op = "Peek"
          /\ LenBefore(n - 3) > 0
          /\ hist[n - 2].ret[1] = hist[n].ret[1] + 1

\* a ring as New leaves it
FreshRing(c) == [buf |-> MakeBuf(c), len |-> 0, head |-> 0]

\* the fields of ring s after one whole call of method o with argument v
RingCall(s, o, v) ==
    IF o = "Insert"
    THEN LET e == IF IsFull(s.len, Cap(s.buf))
                  THEN extract(s.buf, s.len, s.head)
                  ELSE [len |-> s.len, head |-> s.head]
         IN [buf |-> store(s.buf, e.len, e.head, v),
             len |-> e.len + 1, head |-> e.head]
    ELSE IF o = "Extract"
    THEN [buf |-> s.buf, len |-> extract(s.buf, s.len, s.head).len,
          head |-> extract(s.buf, s.len, s.head).head]
    ELSE s

\* what one whole call of method o returns on ring s
RingRet(s, o) ==
    IF o = "Insert" THEN <<>>
    ELSE IF o = "Extract"
    THEN <<extract(s.buf, s.len, s.head).val, extract(s.buf, s.len, s.head).found>>
    ELSE IF o = "Peek" THEN peek(s.buf, s.len, s.head)
    ELSE <<s.len>>

\* ring s after calls i+1 .. j of hist
RECURSIVE RingAfter(_, _, _)
RingAfter(s, i, j) ==
    IF j <= i THEN s
    ELSE RingCall(RingAfter(s, i, j - 1), hist[j].op, hist[j].arg)

\* calls i+1 .. j of hist are all calls of method o
AllBetween(i, j, o) == \A k \in (i + 1)..j : hist[k].op = o

\* C18: the ring never gets stuck: an idle caller can start any of the four
\* calls, a caller at the mutex of a free ring can take it, and a caller
\* holding it can take its next step.  A run of k Extracts leaves
\* max(len - k, 0) elements, so Cap of them leave the ring empty; a run of
\* k Inserts leaves min(len + k, Cap) elements, so Cap of them leave it
\* full.  Whenever the ring is empty again, whatever it went through
\* before, every later call returns what the same calls return on a fresh
\* ring of the same capacity.
C18_NoStuckState ==
    /\ \A t \in Threads :
        /\ (ctor = "ok" /\ pc[t] = "idle") =>
               /\ \A v \in Values : ENABLED InsertCall(t, v, calls + 1)
               /\ ENABLED ExtractCall(t, calls + 1)
               /\ ENABLED PeekCall(t, calls + 1)
               /\ ENABLED LenCall(t, calls + 1)
        /\ (pc[t] = "lock" /\ mutex = Free) => ENABLED Lock(t)
        /\ InCS(t) => ENABLED Run(t)
    /\ AtReturn =>
        \A i \in 0..Len(hist), j \in 1..Len(hist) : i < j =>
            /\ AllBetween(i, j, "Extract") =>
                   hist[j].n = IF LenBefore(i + 1) > j - i
                               THEN LenBefore(i + 1) - (j - i) ELSE 0
            /\ AllBetween(i, j, "Insert") =>
                   hist[j].n = IF LenBefore(i + 1) + (j - i) < Cap(buf)
                               THEN LenBefore(i + 1) + (j - i) ELSE Cap(buf)
            /\ LenBefore(i + 1) = 0 =>
                   hist[j].ret =
                       RingRet(RingAfter(FreshRing(Cap(buf)), i, j - 1), hist[j].op)

\* C18 witness: a ring of capacity 2 was emptied by an Extract, then
\* filled by two Inserts, and the Extract after that returned an element
C18_Witness ==
    /\ AtReturn
    /\ Cap(buf) = 2
    /\ Len(hist) = 5
    /\ hist[1].op = "Insert"
    /\ Took(2)
    /\ hist[2].n = 0
    /\ AllBetween(2, 4, "Insert")
    /\ hist[4].n = Cap(buf)
    /\ Took(5)
    /\ hist[5].ret[1] = hist[3].arg
    /\ hist[3].arg # hist[4].arg

\* the slots that hold the l live elements of a ring of c slots with head h
LiveSlots(l, h, c) == {(h + k) % c : k \in 0..(l - 1)}

\* the slots in which buffers b and d differ
Changed(b, d) == {s \in DOMAIN b : b[s] # d[s]}

\* a step that changes buf is the store of an Insert, and changes only the
\* slot at the tail, which holds no live element
OnlyInsertWrites ==
    (ctor = "ok" /\ buf' # buf) =>
        \E t \in Threads :
            /\ pc[t] = "InsertStore"
            /\ pc'[t] = "unlock"
            /\ DOMAIN buf' = DOMAIN buf
            /\ Changed(buf, buf') = {tail(head, len, Cap(buf))}
            /\ tail(head, len, Cap(buf)) \notin LiveSlots(len, head, Cap(buf))

\* C19: only the store of an Insert writes buf, one slot per call, and that
\* slot holds no live element when it is written; it is the old head slot
\* when the ring was full.  Up to that store, and all through Extract, Peek
\* and Len, buf is as it was when the call took the mutex, so the slot of
\* an extracted or evicted element keeps its value.  The number of slots
\* is the one New made.
C19_Storage ==
    /\ [][OnlyInsertWrites]_vars
    /\ [](\A t \in Threads :
            /\ pc[t] \in {"Insert", "InsertStore", "Extract", "Peek", "Len"} =>
                   buf = pre.buf
            /\ (pc[t] = "unlock" /\ op[t] # "Insert") => buf = pre.buf
            /\ (Returning(t, "Extract") /\ ret[t][2]) =>
                   /\ buf[pre.head] = ret[t][1]
                   /\ head # pre.head \/ Cap(buf) = 1
            /\ pc[t] = "InsertStore" =>
                   /\ tail(head, len, Cap(buf)) \notin LiveSlots(len, head, Cap(buf))
                   /\ pre.len = Cap(buf) => tail(head, len, Cap(buf)) = pre.head
            /\ Returning(t, "Insert") =>
                   /\ Changed(pre.buf, buf) \subseteq {tail(head, len - 1, Cap(buf))}
                   /\ buf[tail(head, len - 1, Cap(buf))] = arg[t]
                   /\ pre.len = Cap(buf) => tail(head, len - 1, Cap(buf)) = pre.head)
    /\ [](ctor = "ok" => DOMAIN buf = 0..(newArg - 1))

\* C19 witness: an Insert on a full ring of capacity 2 has just replaced
\* the value in the old head slot by a different one
C19_Witness ==
    \E t \in Threads :
        /\ Returning(t, "Insert")
        /\ Cap(buf) = 2
        /\ pre.len = Cap(buf)
        /\ Changed(pre.buf, buf) = {pre.head}
        /\ pre.buf[pre.head] # Nil

\* C20: between calls, (head + len) mod capacity is the number of Inserts
\* completed so far mod capacity, and head is the number of successful
\* Extracts plus the number of evictions mod capacity.  Insert number k,
\* counted from 0, writes slot k mod capacity and nothing else, and a
\* returning Extract, Peek or Len leaves (head + len) mod capacity as it
\* found it.
C20_Indices ==
    LET c == Cap(buf)
        n == Len(hist)
    IN /\ (ctor = "ok" /\ mutex = Free) =>
              /\ (head + len) % c = Inserts(n) % c
              /\ head = (Takes(n) + Evictions(n)) % c
       /\ \A t \in Threads :
              /\ Returning(t, "Insert") =>
                     /\ Changed(pre.buf, buf) \subseteq {Inserts(n) % c}
                     /\ buf[Inserts(n) % c] = arg[t]
                     /\ (head + len) % c = (Inserts(n) + 1) % c
              /\ (pc[t] = "unlock" /\ op[t] # "Insert") =>
                     (head + len) % c = (pre.head + pre.len) % c

\* C20 witness: between calls on a ring of capacity 2, after three Inserts
\* and an Extract, with head and tail on different slots
C20_Witness ==
    /\ ctor = "ok"
    /\ Cap(buf) = 2
    /\ AtReturn
    /\ Inserts(Len(hist)) = 3
    /\ Takes(Len(hist)) = 1
    /\ Evictions(Len(hist)) = 1
    /\ head = 0
    /\ (head + len) % Cap(buf) = 1

====
